---- MODULE Spec2Model ----
(* The texturing driver examples/task7/class7_texrecon.cpp (function main)   *)
(* as a state machine: one action per statement group of main, in program    *)
(* order, with the OpenMP validity-mask loop run by NumThreads workers.      *)
EXTENDS Integers, Sequences, FiniteSets, TLC

\* ----------------------------------------------------------------- bounds
MaxNodes == 2
MaxViews == 1
NumThreads == 2

\* ------------------------------------------------------ program constants
EXIT_FAILURE == 1
EXIT_SUCCESS == 0
\* the label of a face no view is selected for (the "reserved invalid value")
NoLabel == 0

VARIABLES
    pc,                  \* position of the main thread in main()
    conf,                \* Arguments conf
    num_nodes,           \* graph.num_nodes() (= num_faces)
    num_views,           \* texture_views.size()
    labeling,            \* std::vector<std::size_t> labeling (lines 128, 138)
    i,                   \* index of the transfer loop (line 145), 0-based
    graph,               \* the labels of tex::Graph graph, node k at k + 1
    data_costs,          \* how tex::DataCosts data_costs was obtained
    texture_patches,     \* tex::TexturePatches texture_patches (lines 164, 237)
    next_iter,           \* next iteration the dynamic schedule hands out
    wpc,                 \* position of each OpenMP worker in the loop body
    wi,                  \* each worker's private loop index i (line 186)
    patch_adjust_values, \* each worker's private vector (line 189)
    texture_atlases,     \* tex::TextureAtlases texture_atlases (line 161)
    model,               \* tex::Model model (lines 217, 246)
    saved,               \* the models written by tex::Model::save
    calls,               \* the calls made so far, in order
    atlas_inputs,        \* the patches handed to each generate_texture_atlases
    files,               \* suffixes of the files written under conf.out_prefix
    cerr,                \* the messages written to std::cerr
    fatal,               \* the fatal condition detected, or "none"
    exit_status,         \* the process's exit status, -1 while it runs
    patch_graphs,        \* the graph labels handed to each generate_texture_patches
    first                \* what an earlier run left: its mesh, views, labeling file

vars == <<pc, conf, num_nodes, num_views, labeling, i, graph, data_costs,
          texture_patches, next_iter, wpc, wi, patch_adjust_values,
          texture_atlases, model, saved, calls, atlas_inputs, files, cerr,
          fatal, exit_status, patch_graphs, first>>

Threads == 1..NumThreads

\* ------------------------------------------------------------- the inputs
Confs ==
    [labeling_file : {"", "labeling.vec"},
     data_cost_file : {"", "data_costs.spt"},
     write_intermediate_results : BOOLEAN,
     global_seam_leveling : BOOLEAN,
     local_seam_leveling : BOOLEAN,
     write_timings : BOOLEAN,
     write_view_selection_model : BOOLEAN]

DefaultConf ==
    [labeling_file |-> "", data_cost_file |-> "",
     write_intermediate_results |-> FALSE, global_seam_leveling |-> FALSE,
     local_seam_leveling |-> FALSE, write_timings |-> FALSE,
     write_view_selection_model |-> FALSE]

\* the contents a labeling file can have: any length up to one more than the
\* number of nodes, any label up to one more than the number of views
LabelingFiles(n, nviews) ==
    UNION {[1..len -> 0..(nviews + 1)] : len \in 0..(n + 1)}

\* the labels view_selection leaves on a node: one per view and the reserved
\* invalid label, nviews + 1 values in all, each of which a reloaded labeling
\* may hold
ViewSelectionLabels(nviews) == (1..nviews) \cup {NoLabel}

\* sizeof(std::size_t), the bytes a label takes in the labeling file
SizeofSizeT == 8

\* byte b of an element, the least significant byte being byte 1
RECURSIVE ByteOf(_, _)
ByteOf(element, b) ==
    IF b = 1 THEN element % 256 ELSE ByteOf(element \div 256, b - 1)

\* vector_to_file: the bytes of the vector's elements, in order, each element
\* least significant byte first
vector_to_file(v) ==
    [k \in 1..(Len(v) * SizeofSizeT) |->
        ByteOf(v[((k - 1) \div SizeofSizeT) + 1], ((k - 1) % SizeofSizeT) + 1)]

\* the element whose bytes b.. follow byte `from` of the file
RECURSIVE ElementAt(_, _, _)
ElementAt(bytes, from, b) ==
    IF b > SizeofSizeT THEN 0
    ELSE bytes[from + b] + 256 * ElementAt(bytes, from, b + 1)

\* vector_from_file: as many elements as the file has whole elements
vector_from_file(bytes) ==
    [k \in 1..(Len(bytes) \div SizeofSizeT) |->
        ElementAt(bytes, (k - 1) * SizeofSizeT, 1)]

\* the inputs of a run: any, or in a rerun those of the earlier run
ArgumentsOfRun == IF first = {} THEN Confs ELSE {r.conf : r \in first}
FacesOfMesh == IF first = {} THEN 1..MaxNodes ELSE {r.num_nodes : r \in first}
ViewsOfScene == IF first = {} THEN 1..MaxViews ELSE {r.num_views : r \in first}
LabelingsRead(n, nviews) ==
    IF first = {} THEN LabelingFiles(n, nviews)
    ELSE {vector_from_file(r.labeling_vec) : r \in first}

\* the face counts of the patches generate_texture_patches can produce from
\* n faces: every patch has at least one face and no face is in two patches
RECURSIVE PatchFaceCounts(_)
PatchFaceCounts(n) ==
    {<<>>} \cup UNION {{<<f>> \o s : s \in PatchFaceCounts(n - f)} : f \in 1..n}

\* a texture patch as generate_texture_patches creates it
NewPatch(faces) ==
    [faces |-> faces,      \* texture_patch->get_faces().size()
     taken |-> 0,          \* how often its index was handed to a worker
     busy |-> {},          \* the workers inside adjust_colors on it
     adjusts |-> <<>>,     \* the vectors adjust_colors was called with
     global |-> FALSE,     \* global_seam_leveling was applied to it
     local |-> FALSE]      \* local_seam_leveling was applied to it

\* -------------------------------------------------------- pure conditions
\* line 139: labeling.size() != graph.num_nodes()
SizeMismatchShorter(lab, n) == Len(lab) > n
SizeMismatch(lab, n) == Len(lab) # n

\* line 147: label > texture_views.size()
LabelOutOfRangeStrict(label, nviews) == label >= nviews
LabelOutOfRangeLax(label, nviews) == label > nviews + 1
LabelOutOfRange(label, nviews) == label > nviews

\* line 145: i < labeling.size()
TransferContinuesShort(k, lab) == k + 1 < Len(lab)
TransferContinues(k, lab) == k < Len(lab)

\* line 146: const std::size_t label = labeling[i]
TransferredLabelFirst(lab, k) == lab[1]
TransferredLabel(lab, k) == lab[k + 1]

\* line 189: std::vector<math::Vec3f>(get_faces().size() * 3, Vec3f(0.0f))
PatchAdjustValuesPerFace(faces) == [k \in 1..faces |-> 0]
PatchAdjustValues(faces) == [k \in 1..(faces * 3) |-> 0]

\* line 186: i < texture_patches.size()
LoopContinuesShort(k, patches) == k + 1 < Len(patches)
LoopContinues(k, patches) == k < Len(patches)

\* line 198: conf.settings.local_seam_leveling
RunLocalSeamLevelingAfterGlobal(c) ==
    c.local_seam_leveling /\ c.global_seam_leveling
RunLocalSeamLeveling(c) == c.local_seam_leveling

\* the dynamic schedule hands every iteration out once
NextIterSame(k) == k
NextIter(k) == k + 1

\* the diagnostic each fatal condition writes to std::cerr
Diagnostic(condition) ==
    CASE condition = "parse_args" -> "invalid_argument::what()"
      [] condition = "dir_exists" -> "Destination directory does not exist!"
      [] condition = "load_ply_mesh" -> "Could not load mesh: exception::what()"
      [] condition = "load_from_file" -> "FileException::what()"
      [] condition = "labeling_size" ->
            "Wrong labeling file for this mesh/scene combination... aborting!"
      [] condition = "label_range" ->
            "Wrong labeling file for this mesh/scene combination... aborting!"

\* ------------------------------------------------------------------- Init
Init ==
    /\ pc = "parse_args"
    /\ conf = DefaultConf
    /\ num_nodes = 0
    /\ num_views = 0
    /\ labeling = <<>>
    /\ i = 0
    /\ graph = <<>>
    /\ data_costs = "none"
    /\ texture_patches = <<>>
    /\ next_iter = 0
    /\ wpc = [t \in Threads |-> "none"]
    /\ wi = [t \in Threads |-> 0]
    /\ patch_adjust_values = [t \in Threads |-> <<>>]
    /\ texture_atlases = <<>>
    /\ model = <<>>
    /\ saved = <<>>
    /\ calls = <<>>
    /\ atlas_inputs = <<>>
    /\ files = {}
    /\ cerr = <<>>
    /\ fatal = "none"
    /\ exit_status = -1
    /\ patch_graphs = <<>>
    /\ first = {}

\* ------------------------------------------------------------ the actions
\* std::cerr << message; std::exit(EXIT_FAILURE)
AbortSuccess(condition) ==
    /\ cerr' = Append(cerr, Diagnostic(condition))
    /\ fatal' = condition
    /\ exit_status' = EXIT_SUCCESS
    /\ pc' = "exited"
Abort(condition) ==
    /\ cerr' = Append(cerr, Diagnostic(condition))
    /\ fatal' = condition
    /\ exit_status' = EXIT_FAILURE
    /\ pc' = "exited"

Running == UNCHANGED <<cerr, fatal, exit_status>>
Workers == UNCHANGED <<next_iter, wpc, wi, patch_adjust_values>>

\* lines 40-45, parse_args returns
ParseArgs ==
    /\ pc = "parse_args"
    /\ \E c \in ArgumentsOfRun : conf' = c
    /\ pc' = "dir_exists"
    /\ Running /\ Workers
    /\ UNCHANGED <<first, patch_graphs, num_nodes, num_views, labeling, i, graph, data_costs,
                   texture_patches, texture_atlases, model, saved, calls,
                   atlas_inputs, files>>

\* lines 40-45, parse_args throws std::invalid_argument
ParseArgsFails ==
    /\ pc = "parse_args"
    /\ Abort("parse_args")
    /\ Workers
    /\ UNCHANGED <<first, patch_graphs, conf, num_nodes, num_views, labeling, i, graph, data_costs,
                   texture_patches, texture_atlases, model, saved, calls,
                   atlas_inputs, files>>

\* lines 47-50
DirExists ==
    /\ pc = "dir_exists"
    /\ \E exists \in BOOLEAN :
          IF exists THEN pc' = "load_mesh" /\ Running ELSE Abort("dir_exists")
    /\ Workers
    /\ UNCHANGED <<first, patch_graphs, conf, num_nodes, num_views, labeling, i, graph, data_costs,
                   texture_patches, texture_atlases, model, saved, calls,
                   atlas_inputs, files>>

\* lines 53-70: the mesh is loaded and prepared, or the load throws
LoadMesh ==
    /\ pc = "load_mesh"
    /\ \/ /\ \E n \in FacesOfMesh : num_nodes' = n
          /\ pc' = "loading"
          /\ Running
       \/ /\ Abort("load_ply_mesh")
          /\ UNCHANGED num_nodes
    /\ Workers
    /\ UNCHANGED <<first, patch_graphs, conf, num_views, labeling, i, graph, data_costs,
                   texture_patches, texture_atlases, model, saved, calls,
                   atlas_inputs, files>>

\* lines 71-75: the views are generated and the configuration is written
LoadingNoConf ==
    /\ pc = "loading"
    /\ \E v \in ViewsOfScene : num_views' = v
    /\ pc' = "build_graph"
    /\ Running /\ Workers
    /\ UNCHANGED <<first, patch_graphs, conf, num_nodes, labeling, i, graph, data_costs,
                   texture_patches, texture_atlases, model, saved, calls,
                   atlas_inputs, files>>
Loading ==
    /\ pc = "loading"
    /\ \E v \in ViewsOfScene : num_views' = v
    /\ files' = files \cup {".conf"}
    /\ pc' = "build_graph"
    /\ Running /\ Workers
    /\ UNCHANGED <<first, patch_graphs, conf, num_nodes, labeling, i, graph, data_costs,
                   texture_patches, texture_atlases, model, saved, calls,
                   atlas_inputs>>

\* lines 79-91: the graph is built; the labeling branch is chosen
BuildGraph ==
    /\ pc = "build_graph"
    /\ graph' = [k \in 1..num_nodes |-> NoLabel]
    /\ calls' = Append(calls, "build_adjacency_graph")
    /\ pc' = IF conf.labeling_file = "" THEN "data_costs" ELSE "load_labeling"
    /\ Running /\ Workers
    /\ UNCHANGED <<first, patch_graphs, conf, num_nodes, num_views, labeling, i, data_costs,
                   texture_patches, texture_atlases, model, saved,
                   atlas_inputs, files>>

\* lines 97-107: the data costs are computed and, if asked for, written
CalculateDataCosts ==
    /\ pc = "data_costs"
    /\ conf.data_cost_file = ""
    /\ data_costs' = "computed"
    /\ IF conf.write_intermediate_results
       THEN /\ calls' = calls \o <<"calculate_data_costs", "save_to_file">>
            /\ files' = files \cup {"_data_costs.spt"}
       ELSE /\ calls' = Append(calls, "calculate_data_costs")
            /\ UNCHANGED files
    /\ pc' = "view_selection"
    /\ Running /\ Workers
    /\ UNCHANGED <<first, patch_graphs, conf, num_nodes, num_views, labeling, i, graph,
                   texture_patches, texture_atlases, model, saved,
                   atlas_inputs>>

\* lines 103-118 with the write of lines 103-107 applied to loaded costs too
LoadDataCostsSaving ==
    /\ pc = "data_costs"
    /\ conf.data_cost_file # ""
    /\ \/ /\ data_costs' = "loaded"
          /\ pc' = "view_selection"
          /\ Running
          /\ IF conf.write_intermediate_results
             THEN /\ calls' = calls \o <<"load_from_file", "save_to_file">>
                  /\ files' = files \cup {"_data_costs.spt"}
             ELSE /\ calls' = Append(calls, "load_from_file")
                  /\ UNCHANGED files
       \/ /\ Abort("load_from_file")
          /\ calls' = Append(calls, "load_from_file")
          /\ UNCHANGED <<data_costs, files>>
    /\ Workers
    /\ UNCHANGED <<first, patch_graphs, conf, num_nodes, num_views, labeling, i, graph,
                   texture_patches, texture_atlases, model, saved,
                   atlas_inputs>>

\* lines 108-118: the data costs are loaded, or the load throws
LoadDataCosts ==
    /\ pc = "data_costs"
    /\ conf.data_cost_file # ""
    /\ calls' = Append(calls, "load_from_file")
    /\ \/ /\ data_costs' = "loaded"
          /\ pc' = "view_selection"
          /\ Running
       \/ /\ Abort("load_from_file")
          /\ UNCHANGED data_costs
    /\ Workers
    /\ UNCHANGED <<first, patch_graphs, conf, num_nodes, num_views, labeling, i, graph,
                   texture_patches, texture_atlases, model, saved,
                   atlas_inputs, files>>

\* lines 123-133: view selection labels the graph; the labeling is written
ViewSelection ==
    /\ pc = "view_selection"
    /\ \E ls \in [1..num_nodes -> ViewSelectionLabels(num_views)] : graph' = ls
    /\ IF conf.write_intermediate_results
       THEN /\ labeling' = graph'
            /\ calls' = calls \o <<"view_selection", "vector_to_file">>
            /\ files' = files \cup {"_labeling.vec"}
       ELSE /\ calls' = Append(calls, "view_selection")
            /\ UNCHANGED <<labeling, files>>
    /\ pc' = "generate_patches"
    /\ Running /\ Workers
    /\ UNCHANGED <<first, patch_graphs, conf, num_nodes, num_views, i, data_costs,
                   texture_patches, texture_atlases, model, saved,
                   atlas_inputs>>

\* lines 135-142: the labeling file is read and its size checked
LoadLabeling ==
    /\ pc = "load_labeling"
    /\ \E lab \in LabelingsRead(num_nodes, num_views) :
          /\ labeling' = lab
          /\ IF SizeMismatch(lab, num_nodes)
             THEN Abort("labeling_size")
             ELSE pc' = "transfer" /\ Running
    /\ calls' = Append(calls, "vector_from_file")
    /\ i' = 0
    /\ Workers
    /\ UNCHANGED <<first, patch_graphs, conf, num_nodes, num_views, graph, data_costs,
                   texture_patches, texture_atlases, model, saved,
                   atlas_inputs, files>>

\* lines 145-152: one iteration of the transfer loop
TransferLabel ==
    /\ pc = "transfer"
    /\ TransferContinues(i, labeling)
    /\ LET label == TransferredLabel(labeling, i) IN
          IF LabelOutOfRange(label, num_views)
          THEN /\ Abort("label_range")
               /\ UNCHANGED <<i, graph, calls>>
          ELSE /\ graph' = [k \in DOMAIN graph \cup {i + 1} |->
                               IF k = i + 1 THEN label ELSE graph[k]]
               /\ calls' = Append(calls, "set_label")
               /\ i' = i + 1
               /\ UNCHANGED pc
               /\ Running
    /\ Workers
    /\ UNCHANGED <<first, patch_graphs, conf, num_nodes, num_views, labeling, data_costs,
                   texture_patches, texture_atlases, model, saved,
                   atlas_inputs, files>>

\* lines 145, 154-156: the transfer loop ends
TransferDone ==
    /\ pc = "transfer"
    /\ ~TransferContinues(i, labeling)
    /\ pc' = "generate_patches"
    /\ Running /\ Workers
    /\ UNCHANGED <<first, patch_graphs, conf, num_nodes, num_views, labeling, i, graph, data_costs,
                   texture_patches, texture_atlases, model, saved, calls,
                   atlas_inputs, files>>

\* lines 161-172
GenerateTexturePatches ==
    /\ pc = "generate_patches"
    /\ \E fs \in PatchFaceCounts(num_nodes) :
          texture_patches' = [k \in 1..Len(fs) |-> NewPatch(fs[k])]
    /\ calls' = Append(calls, "generate_texture_patches")
    /\ patch_graphs' = Append(patch_graphs, graph)
    /\ pc' = "global_seam_leveling"
    /\ Running /\ Workers
    /\ UNCHANGED <<first, conf, num_nodes, num_views, labeling, i, graph, data_costs,
                   texture_atlases, model, saved, atlas_inputs, files>>

\* lines 175-182
GlobalSeamLeveling ==
    /\ pc = "global_seam_leveling"
    /\ conf.global_seam_leveling
    /\ texture_patches' = [k \in DOMAIN texture_patches |->
                              [texture_patches[k] EXCEPT !.global = TRUE]]
    /\ calls' = Append(calls, "global_seam_leveling")
    /\ pc' = "local_seam_leveling"
    /\ Running /\ Workers
    /\ UNCHANGED <<first, patch_graphs, conf, num_nodes, num_views, labeling, i, graph, data_costs,
                   texture_atlases, model, saved, atlas_inputs, files>>

\* lines 183-185: the parallel region starts
ParallelForBegin ==
    /\ pc = "global_seam_leveling"
    /\ ~conf.global_seam_leveling
    /\ next_iter' = 0
    /\ wpc' = [t \in Threads |-> "idle"]
    /\ pc' = "omp_for"
    /\ Running
    /\ UNCHANGED <<first, patch_graphs, conf, num_nodes, num_views, labeling, i, graph, data_costs,
                   texture_patches, wi, patch_adjust_values, texture_atlases,
                   model, saved, calls, atlas_inputs, files>>

\* lines 186-190: worker t asks the dynamic schedule for an iteration; given
\* one, it builds its vector and enters adjust_colors on that patch
TakeIteration(t) ==
    /\ pc = "omp_for"
    /\ wpc[t] = "idle"
    /\ IF LoopContinues(next_iter, texture_patches)
       THEN /\ wi' = [wi EXCEPT ![t] = next_iter]
            /\ next_iter' = NextIter(next_iter)
            /\ wpc' = [wpc EXCEPT ![t] = "adjust_colors"]
            /\ patch_adjust_values' =
                  [patch_adjust_values EXCEPT
                      ![t] = PatchAdjustValues(texture_patches[next_iter + 1].faces)]
            /\ texture_patches' =
                  [texture_patches EXCEPT
                      ![next_iter + 1].taken = @ + 1,
                      ![next_iter + 1].busy = @ \cup {t}]
       ELSE /\ wpc' = [wpc EXCEPT ![t] = "barrier"]
            /\ UNCHANGED <<wi, next_iter, texture_patches, patch_adjust_values>>
    /\ Running
    /\ UNCHANGED <<first, patch_graphs, pc, conf, num_nodes, num_views, labeling, i, graph,
                   data_costs, texture_atlases, model, saved, calls,
                   atlas_inputs, files>>

\* lines 190-192: adjust_colors returns to worker t; the iteration ends
LeaveAdjustColors(t) ==
    /\ pc = "omp_for"
    /\ wpc[t] = "adjust_colors"
    /\ texture_patches' =
          [texture_patches EXCEPT
              ![wi[t] + 1].busy = @ \ {t},
              ![wi[t] + 1].adjusts = Append(@, patch_adjust_values[t])]
    /\ patch_adjust_values' = [patch_adjust_values EXCEPT ![t] = <<>>]
    /\ wi' = [wi EXCEPT ![t] = 0]
    /\ calls' = Append(calls, "adjust_colors")
    /\ wpc' = [wpc EXCEPT ![t] = "idle"]
    /\ Running
    /\ UNCHANGED <<first, patch_graphs, pc, conf, num_nodes, num_views, labeling, i, graph,
                   data_costs, next_iter, texture_atlases, model, saved,
                   atlas_inputs, files>>

\* the implicit barrier that ends the parallel region
LoopFinishedHandedOut == ~LoopContinues(next_iter, texture_patches)
LoopFinished == \A t \in Threads : wpc[t] = "barrier"

\* lines 192-194: the parallel region ends
ParallelForEnd ==
    /\ pc = "omp_for"
    /\ LoopFinished
    /\ wpc' = [t \in Threads |-> "none"]
    /\ pc' = "local_seam_leveling"
    /\ Running
    /\ UNCHANGED <<first, patch_graphs, conf, num_nodes, num_views, labeling, i, graph, data_costs,
                   texture_patches, next_iter, wi, patch_adjust_values,
                   texture_atlases, model, saved, calls, atlas_inputs, files>>

\* lines 198-202
LocalSeamLeveling ==
    /\ pc = "local_seam_leveling"
    /\ IF RunLocalSeamLeveling(conf)
       THEN /\ texture_patches' = [k \in DOMAIN texture_patches |->
                                     [texture_patches[k] EXCEPT !.local = TRUE]]
            /\ calls' = Append(calls, "local_seam_leveling")
       ELSE UNCHANGED <<texture_patches, calls>>
    /\ pc' = "generate_atlases"
    /\ Running /\ Workers
    /\ UNCHANGED <<first, patch_graphs, conf, num_nodes, num_views, labeling, i, graph, data_costs,
                   texture_atlases, model, saved, atlas_inputs, files>>

\* lines 208-210
GenerateTextureAtlases ==
    /\ pc = "generate_atlases"
    /\ texture_atlases' = Append(texture_atlases, "main")
    /\ atlas_inputs' = Append(atlas_inputs, texture_patches)
    /\ calls' = Append(calls, "generate_texture_atlases")
    /\ pc' = "build_model"
    /\ Running /\ Workers
    /\ UNCHANGED <<first, patch_graphs, conf, num_nodes, num_views, labeling, i, graph, data_costs,
                   texture_patches, model, saved, files>>

\* lines 216-219
BuildModel ==
    /\ pc = "build_model"
    /\ model' = texture_atlases
    /\ calls' = Append(calls, "build_model")
    /\ pc' = "save_model"
    /\ Running /\ Workers
    /\ UNCHANGED <<first, patch_graphs, conf, num_nodes, num_views, labeling, i, graph, data_costs,
                   texture_patches, texture_atlases, saved, atlas_inputs,
                   files>>

\* lines 221-233: the model is saved, the timings written, the run ends or
\* goes on to the debug model
SaveModel ==
    /\ pc = "save_model"
    /\ saved' = Append(saved, [suffix |-> "", atlases |-> model])
    /\ calls' = Append(calls, "Model::save")
    /\ files' = files \cup {".obj"}
                      \cup (IF conf.write_timings THEN {"_timings.csv"} ELSE {})
    /\ IF conf.write_view_selection_model
       THEN pc' = "debug_patches" /\ UNCHANGED exit_status
       ELSE pc' = "exited" /\ exit_status' = EXIT_SUCCESS
    /\ UNCHANGED <<cerr, fatal>>
    /\ Workers
    /\ UNCHANGED <<first, patch_graphs, conf, num_nodes, num_views, labeling, i, graph, data_costs,
                   texture_patches, texture_atlases, model, atlas_inputs>>

\* lines 235-240 without the texture_atlases.clear() of line 234
DebugTexturePatchesNoClear ==
    /\ pc = "debug_patches"
    /\ UNCHANGED texture_atlases
    /\ texture_patches' = [k \in DOMAIN texture_patches |->
                              NewPatch(texture_patches[k].faces)]
    /\ calls' = calls \o <<"generate_debug_embeddings",
                           "generate_texture_patches">>
    /\ patch_graphs' = Append(patch_graphs, graph)
    /\ pc' = "debug_atlases"
    /\ Running /\ Workers
    /\ UNCHANGED <<first, conf, num_nodes, num_views, labeling, i, graph, data_costs,
                   model, saved, atlas_inputs, files>>

\* lines 234-240: the atlases are cleared, the debug patches generated
DebugTexturePatches ==
    /\ pc = "debug_patches"
    /\ texture_atlases' = <<>>
    /\ texture_patches' = [k \in DOMAIN texture_patches |->
                              NewPatch(texture_patches[k].faces)]
    /\ calls' = calls \o <<"generate_debug_embeddings",
                           "generate_texture_patches">>
    /\ patch_graphs' = Append(patch_graphs, graph)
    /\ pc' = "debug_atlases"
    /\ Running /\ Workers
    /\ UNCHANGED <<first, conf, num_nodes, num_views, labeling, i, graph, data_costs,
                   model, saved, atlas_inputs, files>>

\* line 241
DebugTextureAtlases ==
    /\ pc = "debug_atlases"
    /\ texture_atlases' = Append(texture_atlases, "debug")
    /\ atlas_inputs' = Append(atlas_inputs, texture_patches)
    /\ calls' = Append(calls, "generate_texture_atlases")
    /\ pc' = "debug_model"
    /\ Running /\ Workers
    /\ UNCHANGED <<first, patch_graphs, conf, num_nodes, num_views, labeling, i, graph, data_costs,
                   texture_patches, model, saved, files>>

\* lines 244-253: the debug model is built and saved; main returns
DebugModel ==
    /\ pc = "debug_model"
    /\ model' = texture_atlases
    /\ saved' = Append(saved, [suffix |-> "_view_selection",
                               atlases |-> texture_atlases])
    /\ calls' = calls \o <<"build_model", "Model::save">>
    /\ files' = files \cup {"_view_selection.obj"}
    /\ pc' = "exited"
    /\ exit_status' = EXIT_SUCCESS
    /\ UNCHANGED <<cerr, fatal>>
    /\ Workers
    /\ UNCHANGED <<first, patch_graphs, conf, num_nodes, num_views, labeling, i, graph, data_costs,
                   texture_patches, texture_atlases, atlas_inputs>>

Next ==
    \/ ParseArgs
    \/ ParseArgsFails
    \/ DirExists
    \/ LoadMesh
    \/ Loading
    \/ BuildGraph
    \/ CalculateDataCosts
    \/ LoadDataCosts
    \/ ViewSelection
    \/ LoadLabeling
    \/ TransferLabel
    \/ TransferDone
    \/ GenerateTexturePatches
    \/ GlobalSeamLeveling
    \/ ParallelForBegin
    \/ \E t \in Threads : TakeIteration(t)
    \/ \E t \in Threads : LeaveAdjustColors(t)
    \/ ParallelForEnd
    \/ LocalSeamLeveling
    \/ GenerateTextureAtlases
    \/ BuildModel
    \/ SaveModel
    \/ DebugTexturePatches
    \/ DebugTextureAtlases
    \/ DebugModel

Spec == Init /\ [][Next]_vars

\* the program is run again on the same mesh and scene, with the same
\* arguments and the labeling file the finished run wrote (lines 127-133) as
\* its labeling file
Rerun ==
    /\ pc = "exited"
    /\ fatal = "none"
    /\ first = {}
    /\ "_labeling.vec" \in files
    /\ first' = {[conf |-> [conf EXCEPT !.labeling_file = "labeling.vec"],
                  num_nodes |-> num_nodes,
                  num_views |-> num_views,
                  labeling_vec |-> vector_to_file(labeling),
                  graph |-> graph]}
    /\ pc' = "parse_args"
    /\ conf' = DefaultConf
    /\ num_nodes' = 0
    /\ num_views' = 0
    /\ labeling' = <<>>
    /\ i' = 0
    /\ graph' = <<>>
    /\ data_costs' = "none"
    /\ texture_patches' = <<>>
    /\ next_iter' = 0
    /\ wpc' = [t \in Threads |-> "none"]
    /\ wi' = [t \in Threads |-> 0]
    /\ patch_adjust_values' = [t \in Threads |-> <<>>]
    /\ texture_atlases' = <<>>
    /\ model' = <<>>
    /\ saved' = <<>>
    /\ calls' = <<>>
    /\ atlas_inputs' = <<>>
    /\ files' = {}
    /\ cerr' = <<>>
    /\ fatal' = "none"
    /\ exit_status' = -1
    /\ patch_graphs' = <<>>

NextRoundTrip ==
    \/ Next
    \/ Rerun

\* a run of the program, possibly followed by a second run on its labeling
SpecRoundTrip == Init /\ [][NextRoundTrip]_vars

\* ------------------------------------------------------------ the claims
InCalls(op) == \E k \in DOMAIN calls : calls[k] = op
CountCalls(cs, op) == Cardinality({k \in DOMAIN cs : cs[k] = op})

\* the run took the bypass path: a labeling file was supplied
Bypass == conf.labeling_file # ""
\* the labeling file has been read (lines 138-142 have run)
LabelingLoaded == InCalls("vector_from_file")
\* patch generation is about to start or has started
PatchGenerationReached ==
    pc = "generate_patches" \/ InCalls("generate_texture_patches")

\* C1: when the labeling file read holds a number of labels different from
\* graph.num_nodes(), the run has exited with the failure status, no label was
\* written into the graph, generate_texture_patches was not invoked and no
\* stage was started after the file was read.
C1_LengthMismatchAborts ==
    (LabelingLoaded /\ Len(labeling) # num_nodes) =>
        /\ pc = "exited"
        /\ exit_status = EXIT_FAILURE
        /\ fatal = "labeling_size"
        /\ ~InCalls("set_label")
        /\ ~InCalls("generate_texture_patches")
        /\ calls = <<"build_adjacency_graph", "vector_from_file">>
        /\ \A k \in DOMAIN graph : graph[k] = NoLabel

C1_Witness ==
    /\ LabelingLoaded
    /\ Len(labeling) < num_nodes
    /\ pc = "exited"

\* the position of the first label of the file greater than the number of views
FirstOffending ==
    CHOOSE k \in DOMAIN labeling :
        /\ labeling[k] > num_views
        /\ \A j \in 1..(k - 1) : labeling[j] <= num_views

\* C2: when the labeling file read has the right length and holds a label
\* greater than the number of views, wherever that label stands, the transfer
\* loop never gets past it: the run is in the loop before that label or has
\* exited with the failure status at it, and generate_texture_patches is not
\* invoked.
C2_OutOfRangeLabelAborts ==
    (/\ LabelingLoaded
     /\ Len(labeling) = num_nodes
     /\ \E k \in DOMAIN labeling : labeling[k] > num_views) =>
        /\ ~InCalls("generate_texture_patches")
        /\ pc \in {"transfer", "exited"}
        /\ pc = "transfer" => i < FirstOffending
        /\ pc = "exited" =>
              /\ exit_status = EXIT_FAILURE
              /\ fatal = "label_range"
              /\ i + 1 = FirstOffending

C2_Witness ==
    /\ LabelingLoaded
    /\ num_nodes = 2
    /\ Len(labeling) = 2
    /\ labeling[1] <= num_views
    /\ labeling[2] > num_views
    /\ pc = "exited"
    /\ CountCalls(calls, "set_label") = 1

ValidationAbort == fatal \in {"labeling_size", "label_range"}

\* C4 (as amended): when the supplied labeling fails validation, the only
\* file this run has written is the configuration file: no data-cost file,
\* labeling file, model or timings file.
C4_OnlyConfWrittenAtValidationAbort ==
    ValidationAbort => (pc = "exited" /\ files = {".conf"})

C4_Witness ==
    /\ fatal = "label_range"
    /\ i >= 1
    /\ conf.write_timings
    /\ conf.write_intermediate_results

\* C4 as claimed: when the supplied labeling fails validation no file at all
\* has been written by this run.
C4_Original == ValidationAbort => files = {}

\* the calls the debug rerun of lines 233-252 has made so far
DebugCalls ==
    CASE pc = "debug_atlases" -> 2
      [] pc = "debug_model" -> 3
      [] pc = "exited" /\ fatal = "none" /\ conf.write_view_selection_model -> 5
      [] OTHER -> 0
\* the calls of the main pass: those of lines 78-225
MainPass == SubSeq(calls, 1, Len(calls) - DebugCalls)
InMainPass(op) == LET mp == MainPass IN \E k \in DOMAIN mp : mp[k] = op

\* the place of each call in the stage order of the pipeline
StageRank(op) ==
    CASE op = "build_adjacency_graph" -> 1
      [] op \in {"calculate_data_costs", "load_from_file", "vector_from_file"} -> 2
      [] op = "save_to_file" -> 3
      [] op \in {"view_selection", "set_label"} -> 4
      [] op = "vector_to_file" -> 5
      [] op = "generate_texture_patches" -> 6
      [] op \in {"global_seam_leveling", "adjust_colors"} -> 7
      [] op = "local_seam_leveling" -> 8
      [] op = "generate_texture_atlases" -> 9
      [] op = "build_model" -> 10
      [] op = "Model::save" -> 11
      [] OTHER -> 12

\* the calls that only a loop repeats
Repeated == {"set_label", "adjust_colors"}

\* the labeling stage is complete
LabelingComplete ==
    \/ /\ InMainPass("view_selection")
       /\ InMainPass("calculate_data_costs") \/ InMainPass("load_from_file")
    \/ /\ InMainPass("vector_from_file")
       /\ CountCalls(MainPass, "set_label") = num_nodes

\* the leveling stage is complete: global seam leveling has run, or every
\* iteration of the validity-mask loop has finished
LevelingComplete ==
    \/ InMainPass("global_seam_leveling")
    \/ /\ \A t \in Threads : wpc[t] = "none"
       /\ \A k \in DOMAIN texture_patches :
             /\ texture_patches[k].busy = {}
             /\ pc \in {"local_seam_leveling", "generate_atlases"} =>
                   Len(texture_patches[k].adjusts) = 1
       /\ CountCalls(MainPass, "adjust_colors") = Len(texture_patches)

\* C5: the calls of the main pass are made in the stage order (graph build,
\* labeling, patch generation, global leveling or validity masks, local
\* leveling, atlas generation, model build, model save), each stage once;
\* a stage starts only when its predecessor is complete, the validity-mask
\* loop having finished every iteration before local seam leveling or atlas
\* generation starts; a run that ends with success has made them all.
C5_StagesInOrder ==
    LET mp == MainPass
        in(op) == \E k \in DOMAIN mp : mp[k] = op
    IN
    /\ \A a \in 1..(Len(mp) - 1) :
          /\ StageRank(mp[a]) <= StageRank(mp[a + 1])
          /\ StageRank(mp[a]) = StageRank(mp[a + 1]) =>
                mp[a] = mp[a + 1] /\ mp[a] \in Repeated
    /\ \A k \in DOMAIN mp : StageRank(mp[k]) <= 11
    /\ mp # <<>> => mp[1] = "build_adjacency_graph"
    /\ in("generate_texture_patches") => LabelingComplete
    /\ (pc \in {"local_seam_leveling", "generate_atlases"}
          \/ in("local_seam_leveling")
          \/ in("generate_texture_atlases")) =>
             in("generate_texture_patches") /\ LevelingComplete
    /\ in("local_seam_leveling") => conf.local_seam_leveling
    /\ in("build_model") => in("generate_texture_atlases")
    /\ in("Model::save") => in("build_model")
    /\ (pc = "exited" /\ fatal = "none") =>
          /\ exit_status = EXIT_SUCCESS
          /\ mp[Len(mp)] = "Model::save"
          /\ conf.local_seam_leveling => in("local_seam_leveling")

C5_Witness ==
    /\ pc = "exited"
    /\ fatal = "none"
    /\ ~conf.global_seam_leveling
    /\ conf.local_seam_leveling
    /\ CountCalls(MainPass, "adjust_colors") = 2

\* C6: on the bypass path calculate_data_costs, the data-cost load,
\* view_selection and the writes of the data-cost and labeling files are not
\* invoked, whatever data_cost_file and write_intermediate_results are, and
\* once patch generation is reached node k of the graph holds label k of the
\* file.
C6_BypassReplacesViewSelection ==
    Bypass =>
        /\ \A op \in {"calculate_data_costs", "load_from_file", "save_to_file",
                      "view_selection", "vector_to_file"} : ~InCalls(op)
        /\ data_costs = "none"
        /\ files \cap {"_data_costs.spt", "_labeling.vec"} = {}
        /\ PatchGenerationReached =>
              /\ DOMAIN graph = 1..num_nodes
              /\ Len(labeling) = num_nodes
              /\ \A k \in 1..num_nodes : graph[k] = labeling[k]

C6_Witness ==
    /\ Bypass
    /\ conf.data_cost_file # ""
    /\ conf.write_intermediate_results
    /\ InCalls("generate_texture_patches")
    /\ num_nodes = 2
    /\ graph = <<0, 1>>

\* the patches handed to the main call of generate_texture_atlases
MainAtlasInput == atlas_inputs[1]

\* C7: with global seam leveling disabled, when the atlases are generated
\* global_seam_leveling has not been invoked and adjust_colors has been
\* invoked exactly once on every patch, with a vector of 3 * (faces of the
\* patch) entries, all zero; with no patch there is no call.
C7_ZeroAdjustmentPass ==
    (~conf.global_seam_leveling /\ Len(atlas_inputs) >= 1) =>
        /\ ~InCalls("global_seam_leveling")
        /\ CountCalls(MainPass, "adjust_colors") = Len(MainAtlasInput)
        /\ \A k \in DOMAIN MainAtlasInput :
              /\ ~MainAtlasInput[k].global
              /\ Len(MainAtlasInput[k].adjusts) = 1
              /\ Len(MainAtlasInput[k].adjusts[1]) = 3 * MainAtlasInput[k].faces
              /\ \A e \in DOMAIN MainAtlasInput[k].adjusts[1] :
                    MainAtlasInput[k].adjusts[1][e] = 0

C7_Witness ==
    /\ ~conf.global_seam_leveling
    /\ Len(atlas_inputs) >= 1
    /\ Len(MainAtlasInput) = 1
    /\ MainAtlasInput[1].faces = 2
    /\ Len(MainAtlasInput[1].adjusts[1]) = 6

\* the validity mask of a patch has been computed: global_seam_leveling or
\* adjust_colors has been applied to it
MaskComputed(p) == p.global \/ Len(p.adjusts) >= 1

\* C8 (as amended): every patch handed to the main call of
\* generate_texture_atlases has had global_seam_leveling or the
\* zero-adjustment adjust_colors applied to it; the patches handed to the
\* debug view-selection call have had neither.
C8_MainAtlasPatchesMasked ==
    /\ Len(atlas_inputs) >= 1 =>
          \A k \in DOMAIN atlas_inputs[1] : MaskComputed(atlas_inputs[1][k])
    /\ Len(atlas_inputs) >= 2 =>
          \A k \in DOMAIN atlas_inputs[2] : ~MaskComputed(atlas_inputs[2][k])

C8_Witness ==
    /\ Len(atlas_inputs) = 2
    /\ Len(atlas_inputs[1]) = 2
    /\ Len(atlas_inputs[2]) = 2
    /\ ~conf.global_seam_leveling

\* C8 as claimed: every patch handed to any call of generate_texture_atlases
\* has had its validity mask computed.
C8_Original ==
    \A c \in DOMAIN atlas_inputs :
        \A k \in DOMAIN atlas_inputs[c] : MaskComputed(atlas_inputs[c][k])

\* the fatal conditions the driver handles
FatalConditions ==
    {"parse_args", "dir_exists", "load_ply_mesh", "load_from_file",
     "labeling_size", "label_range"}

\* the calls made when a fatal condition is detected: none after it
NoStageAfterFatal ==
    CASE fatal \in {"parse_args", "dir_exists", "load_ply_mesh"} -> calls = <<>>
      [] fatal = "load_from_file" ->
            calls = <<"build_adjacency_graph", "load_from_file">>
      [] fatal = "labeling_size" ->
            calls = <<"build_adjacency_graph", "vector_from_file">>
      [] fatal = "label_range" ->
            /\ SubSeq(calls, 1, 2) = <<"build_adjacency_graph", "vector_from_file">>
            /\ \A k \in 3..Len(calls) : calls[k] = "set_label"
            /\ Len(calls) = 2 + i

\* the conditions that write the diagnostic last written
ConditionsOfLastDiagnostic ==
    {c \in FatalConditions : Diagnostic(c) = cerr[Len(cerr)]}

\* C9 (as amended): every fatal condition the driver handles writes one
\* diagnostic and exits with the failure status, and no stage runs after it;
\* the diagnostic names the condition, except that the labeling length
\* mismatch and the out-of-range label write the same message.
C9_FatalConditionsReported ==
    fatal # "none" =>
        /\ fatal \in FatalConditions
        /\ pc = "exited"
        /\ exit_status = EXIT_FAILURE
        /\ exit_status # 0
        /\ Len(cerr) = 1
        /\ fatal \in ConditionsOfLastDiagnostic
        /\ ConditionsOfLastDiagnostic =
              IF fatal \in {"labeling_size", "label_range"}
              THEN {"labeling_size", "label_range"}
              ELSE {fatal}
        /\ NoStageAfterFatal

C9_Witness ==
    /\ fatal = "load_from_file"
    /\ pc = "exited"
    /\ cerr = <<"FileException::what()">>

\* C9 as claimed: the diagnostic written is specific to the condition
\* detected: no other fatal condition writes it.
C9_Original ==
    fatal # "none" =>
        /\ pc = "exited"
        /\ exit_status = EXIT_FAILURE
        /\ Len(cerr) = 1
        /\ ConditionsOfLastDiagnostic = {fatal}
        /\ NoStageAfterFatal

\* the workers that hold iteration k of the validity-mask loop
Holders(k) == {t \in Threads : wpc[t] = "adjust_colors" /\ wi[t] = k}

\* C10: in the validity-mask loop every index is handed to at most one
\* worker, at most one worker is inside adjust_colors on a patch, the vector
\* a worker passes is its own zero vector of 3 * faces entries from the call
\* to the return, and when the loop has ended every patch has been
\* processed exactly once.
C10_ValidityLoopExclusive ==
    /\ \A k \in DOMAIN texture_patches :
          /\ texture_patches[k].taken <= 1
          /\ Cardinality(texture_patches[k].busy) <= 1
          /\ Len(texture_patches[k].adjusts) <= 1
          /\ pc = "omp_for" =>
                /\ Cardinality(Holders(k - 1)) <= 1
                /\ texture_patches[k].taken = 1 <=> k <= next_iter
                /\ texture_patches[k].busy =
                      {t \in Threads : wpc[t] = "adjust_colors" /\ wi[t] = k - 1}
                /\ Len(texture_patches[k].adjusts)
                      + Cardinality(Holders(k - 1)) = texture_patches[k].taken
          /\ \A a \in DOMAIN texture_patches[k].adjusts :
                Len(texture_patches[k].adjusts[a]) = 3 * texture_patches[k].faces
    /\ \A t \in Threads :
          wpc[t] = "adjust_colors" =>
             Len(patch_adjust_values[t]) = 3 * texture_patches[wi[t] + 1].faces
    /\ (pc = "local_seam_leveling" /\ ~conf.global_seam_leveling) =>
          \A k \in DOMAIN texture_patches :
             /\ texture_patches[k].taken = 1
             /\ Len(texture_patches[k].adjusts) = 1

C10_Witness ==
    /\ pc = "omp_for"
    /\ \E t, u \in Threads :
          /\ t # u
          /\ wpc[t] = "adjust_colors"
          /\ wpc[u] = "adjust_colors"
          /\ wi[t] # wi[u]

\* C11: local_seam_leveling is invoked if and only if local_seam_leveling is
\* set, whatever global_seam_leveling is; it is invoked once, in the main
\* pass, right after global_seam_leveling (flag on) or after the last
\* adjust_colors of the finished validity-mask pass (flag off), and the next
\* call is generate_texture_atlases.
C11_LocalSeamLevelingByItsFlag ==
    LET mp == MainPass
        pos == {k \in DOMAIN mp : mp[k] = "local_seam_leveling"}
    IN
    /\ Cardinality(pos) <= 1
    /\ CountCalls(calls, "local_seam_leveling") = Cardinality(pos)
    /\ pos # {} => conf.local_seam_leveling
    /\ \A k \in pos :
          /\ k > 1
          /\ IF conf.global_seam_leveling
             THEN mp[k - 1] = "global_seam_leveling"
             ELSE /\ mp[k - 1] \in {"adjust_colors", "generate_texture_patches"}
                  /\ CountCalls(mp, "adjust_colors") = Len(texture_patches)
                  /\ CountCalls(mp, "global_seam_leveling") = 0
                  /\ \A t \in Threads : wpc[t] = "none"
          /\ \A j \in 1..k : mp[j] # "generate_texture_atlases"
          /\ k < Len(mp) => mp[k + 1] = "generate_texture_atlases"
    /\ (pc = "generate_atlases" \/ Len(atlas_inputs) >= 1) =>
          (pos # {} <=> conf.local_seam_leveling)
    /\ Len(atlas_inputs) >= 1 =>
          \A k \in DOMAIN atlas_inputs[1] :
             /\ atlas_inputs[1][k].local = conf.local_seam_leveling
             /\ atlas_inputs[1][k].global = conf.global_seam_leveling

C11_Witness ==
    /\ conf.local_seam_leveling
    /\ ~conf.global_seam_leveling
    /\ Len(atlas_inputs) >= 1
    /\ Len(atlas_inputs[1]) = 2
    /\ atlas_inputs[1][2].local
    /\ InCalls("local_seam_leveling")

\* C12: on the optimization path the data costs are obtained at most once,
\* computed exactly when no data-cost file is configured and loaded
\* otherwise, never both; they are written to the data-cost file exactly
\* when computed with write_intermediate_results set; a failed load exits
\* with the failure status without view_selection; and view_selection is
\* invoked once, after the costs are obtained, before patch generation.
C12_DataCostsObtainedOnce ==
    ~Bypass =>
        LET computed == CountCalls(calls, "calculate_data_costs")
            loaded == CountCalls(calls, "load_from_file")
            written == CountCalls(calls, "save_to_file")
            selected == {k \in DOMAIN calls : calls[k] = "view_selection"}
        IN
        /\ computed + loaded <= 1
        /\ computed = 1 => conf.data_cost_file = ""
        /\ loaded = 1 => conf.data_cost_file # ""
        /\ data_costs = "computed" <=> computed = 1
        /\ data_costs = "loaded" <=> (loaded = 1 /\ fatal = "none")
        /\ written =
              IF computed = 1 /\ conf.write_intermediate_results THEN 1 ELSE 0
        /\ "_data_costs.spt" \in files <=> written = 1
        /\ fatal = "load_from_file" =>
              /\ loaded = 1
              /\ pc = "exited"
              /\ exit_status = EXIT_FAILURE
              /\ selected = {}
        /\ Cardinality(selected) <= 1
        /\ \A k \in selected :
              /\ data_costs # "none"
              /\ \E j \in 1..(k - 1) :
                    calls[j] \in {"calculate_data_costs", "load_from_file"}
        /\ pc = "view_selection" => (data_costs # "none" /\ selected = {})
        /\ PatchGenerationReached => Cardinality(selected) = 1

C12_Witness ==
    /\ ~Bypass
    /\ conf.data_cost_file # ""
    /\ conf.write_intermediate_results
    /\ data_costs = "loaded"
    /\ InCalls("view_selection")
    /\ "_data_costs.spt" \notin files

\* what the earlier run left
FirstRun == CHOOSE r \in first : TRUE

DebugRerunCalls ==
    <<"generate_debug_embeddings", "generate_texture_patches",
      "generate_texture_atlases", "build_model", "Model::save">>

\* C14: calls are made after the main model is saved only when
\* write_view_selection_model is set, and they are the debug embeddings,
\* patch generation, atlas generation, the model build and the save under
\* "_view_selection", in this order and nothing else; the rerun's patch
\* generation is given the labels the main one was given, which are the
\* graph's labels ever since; the atlases are empty when the rerun's are
\* generated, and the debug model holds the rerun's atlases only.
C14_DebugRerun ==
    LET saves == {k \in DOMAIN calls : calls[k] = "Model::save"}
        firstSave == CHOOSE k \in saves : \A j \in saves : k <= j
        tail == IF saves = {} THEN <<>>
                ELSE SubSeq(calls, firstSave + 1, Len(calls))
    IN
    /\ saves = {} =>
          /\ ~InCalls("generate_debug_embeddings")
          /\ Len(patch_graphs) <= 1
          /\ Len(atlas_inputs) <= 1
          /\ saved = <<>>
    /\ tail # <<>> => conf.write_view_selection_model
    /\ Len(tail) <= Len(DebugRerunCalls)
    /\ \A k \in DOMAIN tail : tail[k] = DebugRerunCalls[k]
    /\ (pc = "exited" /\ fatal = "none") =>
          Len(tail) = IF conf.write_view_selection_model THEN 5 ELSE 0
    /\ Len(patch_graphs) <= 2
    /\ \A k \in DOMAIN patch_graphs : patch_graphs[k] = graph
    /\ pc = "debug_atlases" => texture_atlases = <<>>
    /\ Len(atlas_inputs) = 2 =>
          /\ Len(patch_graphs) = 2
          /\ texture_atlases = <<"debug">>
          /\ \A k \in DOMAIN atlas_inputs[2] :
                /\ ~atlas_inputs[2][k].global
                /\ ~atlas_inputs[2][k].local
                /\ atlas_inputs[2][k].adjusts = <<>>
    /\ Len(saved) <= 2
    /\ Len(saved) >= 1 => saved[1] = [suffix |-> "", atlases |-> <<"main">>]
    /\ Len(saved) = 2 =>
          saved[2] = [suffix |-> "_view_selection", atlases |-> <<"debug">>]

C14_Witness ==
    /\ Len(saved) = 2
    /\ conf.global_seam_leveling
    /\ conf.local_seam_leveling
    /\ Len(atlas_inputs[2]) = 2
    /\ \E k \in DOMAIN graph : graph[k] # NoLabel
    /\ pc = "exited"

====
